---- MODULE Spec2Model ----
(***************************************************************************)
(* Market-analysis pipeline of Logistix (scripts/python): the record       *)
(* normalizer, the statistical aggregator, the KPI calculator with its     *)
(* historical trend, and the SQLite history store they read and append to. *)
(*                                                                         *)
(* Units.  Prices and every value the code rounds to 2 decimals are        *)
(* integers counting hundredths (10.00 is 1000; a trend of 100.0 % is      *)
(* 10000).  Arithmetic is exact; round(x, 2) is round-half-to-even on the  *)
(* exact quotient (Python rounds the binary float, which can differ on an  *)
(* exact .xx5 boundary).                                                   *)
(*                                                                         *)
(* JSON values.  A raw field is a string token: Absent (the key is not in  *)
(* the object), None (JSON null) or the string itself.  A nested object    *)
(* is a record with a kind ("absent", "null", "scalar" for a non-dict      *)
(* value, "dict") and its inner field.                                     *)
(***************************************************************************)
EXTENDS Integers, Sequences, FiniteSets, TLC

VARIABLES
    db,         \* market_analyses: the committed rows, in rowid order
    lock,       \* SQLite's write lock: 0 when free, else the process holding it
    now,        \* the last reading of the wall clock, datetime.now(timezone.utc)
    runs,       \* analysis calls started so far
    pc,         \* pc[p]: where process p is in analyze_market_by_product_name
    call,       \* call[p]: the locals of process p's current call
    search,     \* the state of the search_vinted_items run
    api,        \* api/main.py: the requests served so far and the last response
    market,     \* api/database.py: market_analyses, historical_prices, lock, clock
    saver,      \* saver[p]: where process p is in save_market_analysis
    reply       \* the last answer of a read or delete of the analysis store

vars == <<db, lock, now, runs, pc, call, search, api, market, saver, reply>>
analyzerVars == <<db, lock, now, runs, pc, call, search>>

-----------------------------------------------------------------------------
(* Bounds *)

MaxRuns == 3        \* analysis calls of the sequential caller
MaxConcRuns == 2    \* analysis calls of the concurrent callers, in all
MaxClock == 2       \* last value of the clock
MaxItems == 2       \* raw items per batch in the normalizer specification
MaxLimit == 2       \* largest limit a history query is made with
MaxPageItems == 1   \* items on one page of search results
MaxKpiItems == 4    \* raw items per batch in the statistics specification

TrendLimit == 30    \* calculate_kpis: get_historical_analyses(search_text, limit=30)
page_limit == 3     \* search_vinted_items(..., page_limit: int = 3)

Procs == {1, 2}
Keys == {"nike air", "zara"}

-----------------------------------------------------------------------------
(* JSON tokens *)

Absent == "<absent>"
None == "<null>"
DefaultLabel == "Non specifie"      \* 'Non spécifié'

IsStr(v) == v \notin {Absent, None}

\* dict.get(key, default): the default only when the key is absent; a key
\* present with a null value yields None.
DictGet(v, default) == IF v = Absent THEN default ELSE v

\* float('nan'): the value that is not a number.  It stands apart from every
\* price and every statistic of the model; a comparison with it is false and
\* arithmetic on it gives it back, which the operators below spell out.
NaN == -100000000

\* float(s) for the amount strings of the model: <<TRUE, hundredths>> when s
\* parses, <<FALSE, 0>> when float raises ValueError.
NumericStrings == {"10", "20", "30", "40", "15", "100", "-5", "nan"}

ParseFloat(s) ==
    CASE s = "10" -> <<TRUE, 1000>>
      [] s = "20" -> <<TRUE, 2000>>
      [] s = "30" -> <<TRUE, 3000>>
      [] s = "40" -> <<TRUE, 4000>>
      [] s = "15" -> <<TRUE, 1500>>
      [] s = "-5" -> <<TRUE, 0 - 500>>
      [] s = "100" -> <<TRUE, 10000>>
      [] s = "nan" -> <<TRUE, NaN>>
      [] OTHER -> <<FALSE, 0>>

-----------------------------------------------------------------------------
(* Arithmetic *)

RECURSIVE SeqSum(_)
SeqSum(s) == IF s = <<>> THEN 0 ELSE Head(s) + SeqSum(Tail(s))

SeqMin(s) == CHOOSE x \in {s[i] : i \in DOMAIN s} : \A j \in DOMAIN s : x <= s[j]
SeqMax(s) == CHOOSE x \in {s[i] : i \in DOMAIN s} : \A j \in DOMAIN s : x >= s[j]

\* round(num / den) for den > 0, half to even.
RoundHalfEven(num, den) ==
    LET q == num \div den
        r == num - q * den
    IN  IF 2 * r < den THEN q
        ELSE IF 2 * r > den THEN q + 1
        ELSE IF q % 2 = 0 THEN q ELSE q + 1

\* The k-th smallest element of s (1-based), counting duplicates.
KthSmallest(s, k) ==
    CHOOSE x \in {s[i] : i \in DOMAIN s} :
        /\ Cardinality({i \in DOMAIN s : s[i] < x}) < k
        /\ Cardinality({i \in DOMAIN s : s[i] <= x}) >= k

\* Series.median(): the middle value, or the mean of the two middle values.
Median(s) ==
    LET n == Len(s)
    IN  IF n % 2 = 1 THEN KthSmallest(s, (n + 1) \div 2)
        ELSE (KthSmallest(s, n \div 2) + KthSmallest(s, n \div 2 + 1)) \div 2

\* a/b <= c/d for a, c >= 0 and b, d > 0, by comparing the continued
\* fractions (the cross products would not fit TLC's 32-bit integers).
RECURSIVE FracLeq(_, _, _, _)
FracLeq(a, b, c, d) ==
    LET qa == a \div b
        qc == c \div d
        ra == a % b
        rc == c % d
    IN  IF qa # qc THEN qa < qc
        ELSE IF ra = 0 THEN TRUE
        ELSE IF rc = 0 THEN FALSE
        ELSE FracLeq(d, rc, b, ra)

-----------------------------------------------------------------------------
(* pandas *)

Column(records, f) == [i \in DOMAIN records |-> records[i][f]]

\* Series.nunique(): distinct values, nulls not counted (dropna=True).
NUnique(col) == Cardinality({col[i] : i \in DOMAIN col} \ {None})

\* Series.value_counts().to_dict(): the count of every value, nulls left
\* out (dropna=True).
ValueCounts(col) ==
    [v \in {col[i] : i \in DOMAIN col} \ {None} |->
        Cardinality({i \in DOMAIN col : col[i] = v})]

\* The sum of a distribution's counts.
RECURSIVE DistTotal(_)
DistTotal(d) ==
    IF DOMAIN d = {} THEN 0
    ELSE LET v == CHOOSE x \in DOMAIN d : TRUE
         IN  d[v] + DistTotal([x \in DOMAIN d \ {v} |-> d[x]])

-----------------------------------------------------------------------------
(* market_analyzer.py: the record normalizer *)

CaughtInLoop == {"KeyError", "TypeError", "ValueError"}

\* float(item['price']['amount']): the exception it raises ("none" when it
\* returns) and the value.
PriceOf(price) ==
    IF price.kind = "absent" THEN [exc |-> "KeyError", val |-> 0]
    ELSE IF price.kind # "dict" THEN [exc |-> "TypeError", val |-> 0]
    ELSE IF price.amount = Absent THEN [exc |-> "KeyError", val |-> 0]
    ELSE IF price.amount = None THEN [exc |-> "TypeError", val |-> 0]
    ELSE IF ParseFloat(price.amount)[1]
         THEN [exc |-> "none", val |-> ParseFloat(price.amount)[2]]
         ELSE [exc |-> "ValueError", val |-> 0]

\* Mutant of LoginOf: item.get('user', {}).get('login'), which raises
\* nothing for an absent seller or login.
LoginOfGet(user) ==
    IF user.kind = "absent" THEN [exc |-> "none", val |-> None]
    ELSE IF user.kind # "dict" THEN [exc |-> "AttributeError", val |-> None]
    ELSE [exc |-> "none", val |-> DictGet(user.login, None)]

\* item['user']['login']
LoginOf(user) ==
    IF user.kind = "absent" THEN [exc |-> "KeyError", val |-> None]
    ELSE IF user.kind # "dict" THEN [exc |-> "TypeError", val |-> None]
    ELSE IF user.login = Absent THEN [exc |-> "KeyError", val |-> None]
    ELSE [exc |-> "none", val |-> user.login]

\* The body of the try block: the dict literal is evaluated field by field,
\* the first exception wins.
NormalizeItem(item) ==
    LET p == PriceOf(item.price)
        u == LoginOf(item.user)
        rec == [price |-> p.val,
                brand |-> DictGet(item.brand_title, DefaultLabel),
                condition |-> DictGet(item.status, DefaultLabel),
                seller_login |-> u.val]
    IN  IF p.exc # "none" THEN [exc |-> p.exc, rec |-> rec]
        ELSE [exc |-> u.exc, rec |-> rec]

\* for item in data: try: records.append(...) except (KeyError, TypeError,
\* ValueError): continue
\* A normalizing loop over the outcomes of its body, one per raw item:
\*   for item in data:
\*       try: records.append({...})
\*       except (KeyError, TypeError, ValueError): continue
\* An exception of another type leaves the loop and the function.
RECURSIVE CollectRecords(_, _)
CollectRecords(outs, acc) ==
    IF outs = <<>> THEN [exc |-> "none", records |-> acc]
    ELSE IF Head(outs).exc = "none"
         THEN CollectRecords(Tail(outs), Append(acc, Head(outs).rec))
    ELSE IF Head(outs).exc \in CaughtInLoop
         THEN CollectRecords(Tail(outs), acc)
    ELSE [exc |-> Head(outs).exc, records |-> acc]

NormalizeRecords(data) ==
    CollectRecords([i \in DOMAIN data |-> NormalizeItem(data[i])], <<>>)

-----------------------------------------------------------------------------
(* market_analyzer.py: the aggregator *)

Prices(records) == Column(records, "price")

\* Series.min/max/mean/median/std leave the NaN values out (skipna=True) and
\* give NaN when nothing is left.
Finite(prices) == SelectSeq(prices, LAMBDA x : x # NaN)

PriceMetrics(records) ==
    LET f == Finite(Prices(records))
    IN  IF f = <<>>
        THEN [min |-> NaN, max |-> NaN, average |-> NaN, median |-> NaN]
        ELSE [min |-> SeqMin(f),
              max |-> SeqMax(f),
              average |-> RoundHalfEven(SeqSum(f), Len(f)),
              median |-> Median(f)]

AnalysisSummary(records) ==
    [itemsFound |-> Len(records),
     sellersCount |-> NUnique(Column(records, "seller_login"))]

-----------------------------------------------------------------------------
(* data_persistence.py: the history store *)

\* json.dumps / json.loads of an analysis: every value in it is a dict with
\* string keys, a number or a string, so the text parses back to an equal
\* value; the text column is kept apart from the value it encodes.
JsonDumps(v) == <<"json", v>>
JsonLoads(t) == t[2]

\* Mutants of InsertRow: the insert is never committed; the row replaces the
\* last row instead of being added.
InsertRowNotCommitted(store, row) == store
InsertOrReplaceRow(store, row) ==
    IF store = <<>> THEN <<row>> ELSE [store EXCEPT ![Len(store)] = row]

\* INSERT INTO market_analyses (search_text, analysis_timestamp,
\* analysis_data): AUTOINCREMENT gives the row the next id.
InsertRow(store, row) == Append(store, row)

NextId(store) == IF store = <<>> THEN 1 ELSE store[Len(store)].id + 1

\* The permutations of a set of row positions.
RECURSIVE Perms(_)
Perms(S) ==
    IF S = {} THEN {<<>>}
    ELSE UNION {{<<x>> \o t : t \in Perms(S \ {x})} : x \in S}

\* Mutant of OrderedDesc: ORDER BY analysis_timestamp ASC.
OrderedAsc(store, order) ==
    \A i, j \in DOMAIN order :
        i < j => store[order[i]].analysis_timestamp <=
                 store[order[j]].analysis_timestamp

\* ORDER BY analysis_timestamp DESC: SQLite leaves the order of rows with
\* equal timestamps open, so every order of the ties is a possible result.
OrderedDesc(store, order) ==
    \A i, j \in DOMAIN order :
        i < j => store[order[i]].analysis_timestamp >=
                 store[order[j]].analysis_timestamp

Take(s, n) == IF Len(s) <= n THEN s ELSE SubSeq(s, 1, n)

\* SELECT ... WHERE search_text = ? ORDER BY analysis_timestamp DESC LIMIT ?
\* as the row positions selected, in result order.
SelectHistory(store, search_text, limit) ==
    LET match == {i \in DOMAIN store : store[i].search_text = search_text}
    IN  {Take(o, limit) : o \in {q \in Perms(match) : OrderedDesc(store, q)}}

\* for row in rows: historical_data.append({"analysisTimestamp": row[0],
\* "analysisData": json.loads(row[1])})
HistoricalData(store, sel) ==
    [i \in DOMAIN sel |->
        [analysisTimestamp |-> store[sel[i]].analysis_timestamp,
         analysisData |-> JsonLoads(store[sel[i]].analysis_data)]]

\* get_historical_analyses: the possible results, one per order of the ties.
get_historical_analyses(store, search_text, limit) ==
    {HistoricalData(store, sel) : sel \in SelectHistory(store, search_text, limit)}

-----------------------------------------------------------------------------
(* market_analyzer.py: calculate_kpis *)

HasAverage(analysis) ==
    /\ "analysisData" \in DOMAIN analysis
    /\ "priceAnalysis" \in DOMAIN analysis.analysisData
    /\ "average" \in DOMAIN analysis.analysisData.priceAnalysis

historical_prices(historical_analyses) ==
    LET kept == SelectSeq(historical_analyses, HasAverage)
    IN  [i \in DOMAIN kept |-> kept[i].analysisData.priceAnalysis.average]

\* round(((current_avg - oldest_avg) / oldest_avg) * 100, 2) with the
\* current mean sum / n, in hundredths of a percent.
TrendFormula(sum, n, oldest_avg) ==
    RoundHalfEven(10000 * (sum - n * oldest_avg), n * oldest_avg)

\* Mutants of PriceTrend: the newest average is taken for the oldest; one
\* historical average is taken to be enough.
PriceTrendFromNewest(sum, n, historical_analyses) ==
    LET hp == historical_prices(historical_analyses)
    IN  IF Len(historical_analyses) > 1 /\ Len(hp) > 1 /\ hp[1] > 0
        THEN TrendFormula(sum, n, hp[1])
        ELSE 0
PriceTrendFromOne(sum, n, historical_analyses) ==
    LET hp == historical_prices(historical_analyses)
    IN  IF Len(historical_analyses) > 0 /\ Len(hp) > 0 /\ hp[Len(hp)] > 0
        THEN TrendFormula(sum, n, hp[Len(hp)])
        ELSE 0

\* The current mean is sum / n, or NaN when n is 0.
PriceTrend(sum, n, historical_analyses) ==
    LET hp == historical_prices(historical_analyses)
    IN  IF Len(historical_analyses) > 1
        THEN IF Len(hp) > 1
             THEN IF hp[Len(hp)] # NaN /\ hp[Len(hp)] > 0
                  THEN IF n = 0 THEN NaN ELSE TrendFormula(sum, n, hp[Len(hp)])
                  ELSE 0
             ELSE 0
        ELSE 0

\* round((1 / (price_std + 1)) * num_sellers, 2) in hundredths, where
\* price_std ^ 2 = a / b: the integer k nearest to y = 100 * S / (std + 1),
\* half to even, found by comparing y with the half-integers around k.
ScoreNotBelow(a, b, S, m) ==    \* y >= m / 2
    m <= 0 \/ (200 * S >= m /\ FracLeq(a, b, (200 * S - m) * (200 * S - m), m * m))
ScoreNotAbove(a, b, S, m) ==    \* y <= m / 2
    m > 0 /\ (200 * S < m \/ FracLeq((200 * S - m) * (200 * S - m), m * m, a, b))

RoundedScore(a, b, S) ==
    CHOOSE k \in 0..(100 * S) :
        /\ IF k % 2 = 0 THEN ScoreNotBelow(a, b, S, 2 * k - 1)
                        ELSE ~ScoreNotAbove(a, b, S, 2 * k - 1)
        /\ IF k % 2 = 0 THEN ScoreNotAbove(a, b, S, 2 * k + 1)
                        ELSE ~ScoreNotBelow(a, b, S, 2 * k + 1)

\* Series.std(): the sample variance of the prices (in units, not
\* hundredths) as the fraction <<a, b>>.
SampleVariance(prices) ==
    LET n == Len(prices)
        sq == [i \in DOMAIN prices |-> prices[i] * prices[i]]
    IN  <<n * SeqSum(sq) - SeqSum(prices) * SeqSum(prices), 10000 * n * (n - 1)>>

\* Mutant of TurnoverRate: the listed items are estimated at len(df).
TurnoverRateOfListed(n) ==
    IF n > 0 THEN RoundHalfEven(n * 10000, n) ELSE 0

\* total_listed_items_estimate = len(df) * 2;
\* round((len(df) / total_listed_items_estimate) * 100, 2) when it is > 0,
\* else 0.0.
TurnoverRate(n) ==
    IF 2 * n > 0 THEN RoundHalfEven(n * 10000, 2 * n) ELSE 0

\* Mutant of NotAvailable: another sentinel.
Unknown == "unknown"

\* kpis["partDeMarcheRelative"] = "N/A", kpis["elasticitePrix"] = "N/A"
NotAvailable == "N/A"

\* Mutant of RecommendedPrice: 95 % of the mean already rounded to 2 decimals.
RecommendedPriceOfRounded(sum, mean_n) ==
    IF mean_n > 0 /\ sum > 0
    THEN RoundHalfEven(95 * RoundHalfEven(sum, mean_n), 100)
    ELSE 0

\* round(average_price * 0.95, 2) if average_price > 0 else 0, for the mean
\* sum / mean_n (NaN when mean_n is 0: the comparison is false).
RecommendedPrice(sum, mean_n) ==
    IF mean_n > 0 /\ sum > 0 THEN RoundHalfEven(95 * sum, 100 * mean_n) ELSE 0

\* average_price is sum / mean_n: 0 for an empty frame, the mean of the
\* prices that are numbers, NaN (mean_n = 0) when none is.  price_std is 0
\* for a single record and NaN when fewer than two prices are numbers.
calculate_kpis(records, historical_analyses) ==
    LET n == Len(records)
        f == Finite(Prices(records))
        sum == SeqSum(f)
        mean_n == IF n = 0 THEN 1 ELSE Len(f)
        std_nan == n > 1 /\ Len(f) < 2
        var == IF n > 1 /\ ~std_nan THEN SampleVariance(f) ELSE <<0, 1>>
        num_sellers == IF n = 0 THEN 0 ELSE NUnique(Column(records, "seller_login"))
    IN  [prixOptimalRecommande |->
            RecommendedPrice(sum, mean_n),
         tauxDeRotation |-> TurnoverRate(n),
         partDeMarcheRelative |-> NotAvailable,
         scoreCompetitivite |->
            IF num_sellers > 0
            THEN IF std_nan THEN NaN ELSE RoundedScore(var[1], var[2], num_sellers)
            ELSE 0,
         tendancePrix30Jours |-> PriceTrend(sum, mean_n, historical_analyses),
         elasticitePrix |-> NotAvailable]

-----------------------------------------------------------------------------
(* market_analyzer.py: the result objects *)

\* The literal of the branch "if not data".
empty_analysis(timestamp) ==
    [analysisTimestamp |-> timestamp,
     priceAnalysis |-> [min |-> 0, max |-> 0, average |-> 0, median |-> 0],
     summary |-> [itemsFound |-> 0, sellersCount |-> 0],
     brandDistribution |-> <<>>,
     conditionDistribution |-> <<>>,
     kpis |-> <<>>]

\* Mutant of empty_analysis_no_records: the KPI block carries its sentinels.
empty_analysis_with_sentinels(timestamp) ==
    [analysisTimestamp |-> timestamp,
     priceAnalysis |-> [min |-> 0, max |-> 0, average |-> 0, median |-> 0],
     summary |-> [itemsFound |-> 0, sellersCount |-> 0],
     brandDistribution |-> <<>>,
     conditionDistribution |-> <<>>,
     kpis |-> [partDeMarcheRelative |-> "N/A", elasticitePrix |-> "N/A"]]

\* The literal of the branch "if not records".
empty_analysis_no_records(timestamp) ==
    [analysisTimestamp |-> timestamp,
     priceAnalysis |-> [min |-> 0, max |-> 0, average |-> 0, median |-> 0],
     summary |-> [itemsFound |-> 0, sellersCount |-> 0],
     brandDistribution |-> <<>>,
     conditionDistribution |-> <<>>,
     kpis |-> <<>>]

final_result(records, calculated_kpis, timestamp) ==
    [analysisTimestamp |-> timestamp,
     priceAnalysis |-> PriceMetrics(records),
     summary |-> AnalysisSummary(records),
     brandDistribution |-> ValueCounts(Column(records, "brand")),
     conditionDistribution |-> ValueCounts(Column(records, "condition")),
     kpis |-> calculated_kpis]

-----------------------------------------------------------------------------
(* analyze_market_by_search.py: analyze_sold_items, analyze_available_items *)

\* float(item.get('total_item_price_with_fees', {}).get('amount', 0)):
\* a null or non-dict value has no .get (AttributeError).
FeesOf(fees) ==
    IF fees.kind = "absent" THEN [exc |-> "none", val |-> 0]
    ELSE IF fees.kind # "dict" THEN [exc |-> "AttributeError", val |-> 0]
    ELSE IF fees.amount = Absent THEN [exc |-> "none", val |-> 0]
    ELSE IF fees.amount = None THEN [exc |-> "TypeError", val |-> 0]
    ELSE IF ParseFloat(fees.amount)[1]
         THEN [exc |-> "none", val |-> ParseFloat(fees.amount)[2]]
         ELSE [exc |-> "ValueError", val |-> 0]

\* item.get('photos', [{}])[0].get('url', '') if item.get('photos') else '':
\* photos is absent, null or empty ("absent"), a list whose first element is
\* a dict ("dict") or a list whose first element is null ("null").
PhotoUrlOf(photos) ==
    IF photos.kind = "absent" THEN [exc |-> "none", val |-> ""]
    ELSE IF photos.kind # "dict" THEN [exc |-> "AttributeError", val |-> ""]
    ELSE [exc |-> "none", val |-> DictGet(photos.url, "")]

FirstExc(excs) ==
    IF \A i \in DOMAIN excs : excs[i] = "none" THEN "none"
    ELSE excs[CHOOSE i \in DOMAIN excs :
                /\ excs[i] # "none"
                /\ \A j \in DOMAIN excs : j < i => excs[j] = "none"]

\* The body of the try block of both loops, field by field.
SearchRecord(item) ==
    LET p == PriceOf(item.price)
        f == FeesOf(item.total_item_price_with_fees)
        u == PhotoUrlOf(item.photos)
    IN  [exc |-> FirstExc(<<IF item.id = Absent THEN "KeyError" ELSE "none",
                           p.exc, f.exc, u.exc>>),
         rec |-> [id |-> item.id,
                  title |-> DictGet(item.title, ""),
                  price |-> p.val,
                  total_price_with_fees |-> f.val,
                  brand |-> DictGet(item.brand_title, DefaultLabel),
                  size |-> DictGet(item.size_title, DefaultLabel),
                  condition |-> DictGet(item.status, DefaultLabel),
                  photoUrl |-> u.val]]

SearchRecords(items) ==
    CollectRecords([i \in DOMAIN items |-> SearchRecord(items[i])], <<>>)

\* item.get('user', {}).get('login'): a null or non-dict user has no .get.
CompetitorLogin(user) ==
    IF user.kind = "absent" THEN [exc |-> "none", val |-> None]
    ELSE IF user.kind # "dict" THEN [exc |-> "AttributeError", val |-> None]
    ELSE [exc |-> "none", val |-> DictGet(user.login, None)]

\* len(set(item.get('user', {}).get('login', '') for item in items
\*         if item.get('user', {}).get('login')))
CompetitorCount(items) ==
    LET logins == [i \in DOMAIN items |-> CompetitorLogin(items[i].user)]
    IN  [exc |-> FirstExc([i \in DOMAIN items |-> logins[i].exc]),
         val |-> Cardinality({logins[i].val : i \in DOMAIN items} \ {None, ""})]

SearchMeta(timestamp) ==
    [brandId |-> 1, catalogId |-> 2, statusId |-> 3, searchTimestamp |-> timestamp]

analyze_sold_items(sold_items, available_items, timestamp) ==
    LET loop == SearchRecords(sold_items)
        competitors == CompetitorCount(sold_items)
    IN  IF loop.exc # "none" THEN [exc |-> loop.exc, result |-> <<>>]
        ELSE IF loop.records = <<>> THEN [exc |-> "ValueError", result |-> <<>>]
        ELSE IF competitors.exc # "none" THEN [exc |-> competitors.exc, result |-> <<>>]
        ELSE [exc |-> "none",
              result |->
                [searchMeta |-> SearchMeta(timestamp),
                 priceAnalysis |-> PriceMetrics(loop.records),
                 summary |-> [similarSoldItemsFound |-> Len(loop.records),
                              competitorCount |-> competitors.val,
                              availableItemsCount |-> Len(available_items)],
                 soldItems |-> loop.records,
                 brandDistribution |-> ValueCounts(Column(loop.records, "brand")),
                 conditionDistribution |-> ValueCounts(Column(loop.records, "condition")),
                 sizeDistribution |-> ValueCounts(Column(loop.records, "size"))]]

analyze_available_items(available_items, timestamp) ==
    LET loop == SearchRecords(available_items)
        competitors == CompetitorCount(available_items)
    IN  IF loop.exc # "none" THEN [exc |-> loop.exc, result |-> <<>>]
        ELSE IF loop.records = <<>> THEN [exc |-> "ValueError", result |-> <<>>]
        ELSE IF competitors.exc # "none" THEN [exc |-> competitors.exc, result |-> <<>>]
        ELSE [exc |-> "none",
              result |->
                [searchMeta |-> SearchMeta(timestamp),
                 priceAnalysis |-> PriceMetrics(loop.records),
                 summary |-> [similarSoldItemsFound |-> 0,
                              competitorCount |-> competitors.val,
                              availableItemsCount |-> Len(available_items)],
                 soldItems |-> <<>>,
                 availableItems |-> loop.records,
                 brandDistribution |-> ValueCounts(Column(loop.records, "brand")),
                 conditionDistribution |-> ValueCounts(Column(loop.records, "condition")),
                 sizeDistribution |-> ValueCounts(Column(loop.records, "size"))]]

\* item.get('is_sold') is truthy
IsSold(item) == item.is_sold = "true"

-----------------------------------------------------------------------------
(* Raw items *)

Price(amount) == [kind |-> "dict", amount |-> amount]
User(login) == [kind |-> "dict", login |-> login]

RawItem(price, brand_title, status, user) ==
    [price |-> price, brand_title |-> brand_title, status |-> status, user |-> user]

\* Items of price 10, 30 and -5, and an item the normalizer drops.
Item10 == RawItem(Price("10"), "nike", "Bon etat", User("alice"))
Item30 == RawItem(Price("30"), None, Absent, User("bob"))
ItemNeg == RawItem(Price("-5"), "zara", "Neuf", User("alice"))
ItemBad == RawItem(Price("abc"), "nike", "Neuf", User("bob"))
Item20 == RawItem(Price("20"), "nike", "Neuf", User("bob"))
Item40 == RawItem(Price("40"), "zara", "Neuf", User("carol"))
Item15 == RawItem(Price("15"), "zara", "Bon etat", User("alice"))
ItemNaN == RawItem(Price("nan"), "nike", "Neuf", User("alice"))
Item100 == RawItem(Price("100"), "nike", "Neuf", User("alice"))

\* The calls (search_text, the items the fetch returns) of the sequential
\* caller and of the concurrent callers.
HistRequests ==
    {<<"nike air", data>> : data \in {<<>>, <<Item10>>, <<Item10, Item30>>, <<ItemNeg>>}}
ConcRequests ==
    {<<"nike air", <<>>>>, <<"nike air", <<ItemBad>>>>, <<"nike air", <<Item10>>>>,
     <<"zara", <<Item10>>>>}

\* The items of the normalizer specification: every shape of the price, of
\* the seller and of the two labels, one field varied at a time.
NormPrices ==
    {[kind |-> "absent", amount |-> Absent], [kind |-> "null", amount |-> Absent],
     [kind |-> "scalar", amount |-> Absent],
     Price(Absent), Price(None), Price("abc"),
     Price("10"), Price("40"), Price("-5"), Price("nan")}
NormUsers ==
    {[kind |-> "absent", login |-> Absent], [kind |-> "null", login |-> Absent],
     [kind |-> "scalar", login |-> Absent],
     User(Absent), User(None), User("alice"), User("bob")}
NormItems ==
    {RawItem(p, "nike", "Neuf", User("alice")) : p \in NormPrices}
    \cup {RawItem(Price("10"), "nike", "Neuf", u) : u \in NormUsers}
    \cup {RawItem(Price("15"), b, c, User("bob")) :
            b \in {Absent, None, "nike", "zara"}, c \in {Absent, None, "Neuf"}}

SeqsUpTo(S, n) == UNION {[1..k -> S] : k \in 0..n}

NormRequests == {<<"nike air", data>> : data \in SeqsUpTo(NormItems, MaxItems)}

\* The batches of the statistics specification: well-formed items of
\* several prices and sellers, one of a negative price and one whose price is
\* not a number.
KpiItems == {Item10, Item20, Item30, Item40, Item15, ItemNeg, ItemNaN}
KpiRequests ==
    {<<"nike air", data>> : data \in SeqsUpTo(KpiItems, MaxKpiItems) \cup {<<Item100>>}}

\* The items of the search specification.
SearchItem(id, price, fees, user, is_sold) ==
    [id |-> id, title |-> "t", price |-> price, total_item_price_with_fees |-> fees,
     brand_title |-> "nike", size_title |-> Absent, status |-> "Neuf",
     photos |-> [kind |-> "absent", url |-> Absent], user |-> user, is_sold |-> is_sold]

NoFees == [kind |-> "absent", amount |-> Absent]

SearchItems ==
    {SearchItem("1", Price("10"), NoFees, User("alice"), "true"),
     SearchItem("2", Price("40"), Price("40"), User("bob"), "true"),
     SearchItem("3", Price("abc"), NoFees, User("carol"), "true"),
     SearchItem("4", Price("10"), [kind |-> "null", amount |-> Absent], User("dave"), "true"),
     SearchItem("5", Price("10"), NoFees, [kind |-> "null", login |-> Absent], "true"),
     SearchItem(Absent, Price("10"), NoFees, User("erin"), "true"),
     SearchItem("7", Price("10"), NoFees, User("alice"), Absent),
     SearchItem("8", Price("abc"), NoFees, User("bob"), "false")}

-----------------------------------------------------------------------------
(* analyze_market_by_product_name, one process per concurrent call *)

\* datetime.now(timezone.utc).isoformat(): the wall clock has moved on since
\* its last reading, or has not (its resolution is finite and it is not
\* monotonic); timestamps of equal length compare as text the way they do as
\* times.
ClockReadings == now..MaxClock

IdleCall ==
    [search_text |-> "", data |-> <<>>, path |-> "", records |-> <<>>,
     hist |-> <<>>, result |-> <<>>, stamp |-> 0, written |-> <<>>, exc |-> "none",
     reads |-> <<>>]

IdleSearch ==
    [phase |-> "idle", page |-> 0, all_items |-> <<>>, branch |-> "",
     exc |-> "none", result |-> <<>>]

\* requests.get / raise_for_status / response.json() raised: every handler
\* of the try block raises ConnectionError.
FetchFails(p, requests, max) ==
    /\ pc[p] = "idle"
    /\ runs < max
    /\ \E req \in requests, cause \in {"HTTPError 401", "HTTPError", "Exception"} :
        /\ call' = [call EXCEPT ![p] = [IdleCall EXCEPT !.search_text = req[1],
                                                         !.exc = "ConnectionError"]]
        /\ pc' = [pc EXCEPT ![p] = "raised"]
    /\ runs' = runs + 1
    /\ UNCHANGED <<db, lock, now, search, api, market, saver, reply>>

\* The fetch returned the list data: the empty result when there is no item
\* or no record, else the records and their statistics.
Fetch(p, requests, max) ==
    /\ pc[p] = "idle"
    /\ runs < max
    /\ \E req \in requests, t \in ClockReadings :
        LET data == req[2]
            started == [IdleCall EXCEPT !.search_text = req[1], !.data = data]
            records == NormalizeRecords(data).records
        IN  IF data = <<>>
            THEN /\ call' = [call EXCEPT ![p] =
                        [started EXCEPT !.path = "zero", !.result = empty_analysis(t)]]
                 /\ pc' = [pc EXCEPT ![p] = "save"]
                 /\ now' = t
            ELSE IF records = <<>>
            THEN /\ call' = [call EXCEPT ![p] =
                        [started EXCEPT !.path = "dropped",
                                        !.result = empty_analysis_no_records(t)]]
                 /\ pc' = [pc EXCEPT ![p] = "save"]
                 /\ now' = t
            ELSE /\ call' = [call EXCEPT ![p] =
                        [started EXCEPT !.path = "normal", !.records = records]]
                 /\ pc' = [pc EXCEPT ![p] = "kpis"]
                 /\ now' = now
    /\ runs' = runs + 1
    /\ UNCHANGED <<db, lock, search, api, market, saver, reply>>

\* The ids of the rows of a selection.
RowIds(store_rows, sel) == [i \in DOMAIN sel |-> store_rows[sel[i]].id]

\* Mutant of Kpis: the KPIs are computed without a history query.
KpisWithoutHistory(p) ==
    /\ pc[p] = "kpis"
    /\ \E t \in ClockReadings :
        /\ call' = [call EXCEPT ![p].result = final_result(call[p].records,
                                    calculate_kpis(call[p].records, <<>>), t)]
        /\ now' = t
    /\ pc' = [pc EXCEPT ![p] = "save"]
    /\ UNCHANGED <<db, lock, runs, search, api, market, saver, reply>>

\* Mutant of Kpis: the stored snapshots are counted among the items found.
KpisCountingHistory(p) ==
    /\ pc[p] = "kpis"
    /\ \E sel \in SelectHistory(db, call[p].search_text, TrendLimit),
          t \in ClockReadings :
        LET historical_analyses == HistoricalData(db, sel)
        IN
        /\ call' = [call EXCEPT ![p].hist = historical_analyses,
                                ![p].reads = Append(@, RowIds(db, sel)),
                                ![p].result =
                                    [final_result(call[p].records,
                                        calculate_kpis(call[p].records, historical_analyses),
                                        t)
                                     EXCEPT !.summary.itemsFound =
                                        @ + Len(historical_analyses)]]
        /\ now' = t
    /\ pc' = [pc EXCEPT ![p] = "save"]
    /\ UNCHANGED <<db, lock, runs, search, api, market, saver, reply>>

\* calculate_kpis reads the history, then final_result is built.  The call
\* logs every history query it makes, as the ids of the rows it was given.
Kpis(p) ==
    /\ pc[p] = "kpis"
    /\ \E sel \in SelectHistory(db, call[p].search_text, TrendLimit),
          t \in ClockReadings :
        LET historical_analyses == HistoricalData(db, sel)
        IN
        /\ call' = [call EXCEPT ![p].hist = historical_analyses,
                                ![p].reads = Append(@, RowIds(db, sel)),
                                ![p].result = final_result(call[p].records,
                                    calculate_kpis(call[p].records, historical_analyses),
                                    t)]
        /\ now' = t
    /\ pc' = [pc EXCEPT ![p] = "save"]
    /\ UNCHANGED <<db, lock, runs, search, api, market, saver, reply>>

\* save_analysis: connect, read the clock.
SaveStamp(p) ==
    /\ pc[p] = "save"
    /\ \E t \in ClockReadings :
        /\ call' = [call EXCEPT ![p].stamp = t]
        /\ now' = t
    /\ pc' = [pc EXCEPT ![p] = "insert"]
    /\ UNCHANGED <<db, lock, runs, search, api, market, saver, reply>>

\* cursor.execute(INSERT ...) opens the write transaction.
SaveInsert(p) ==
    /\ pc[p] = "insert"
    /\ lock = 0
    /\ lock' = p
    /\ pc' = [pc EXCEPT ![p] = "commit"]
    /\ UNCHANGED <<db, now, runs, call, search, api, market, saver, reply>>

\* The database stayed locked by another writer for the whole busy timeout:
\* sqlite3.OperationalError leaves save_analysis and the call.
SaveLocked(p) ==
    /\ pc[p] = "insert"
    /\ lock \notin {0, p}
    /\ call' = [call EXCEPT ![p].exc = "OperationalError"]
    /\ pc' = [pc EXCEPT ![p] = "raised"]
    /\ UNCHANGED <<db, lock, now, runs, search, api, market, saver, reply>>

\* conn.commit(): the row is in the table; the call returns its result.
SaveCommit(p) ==
    /\ pc[p] = "commit"
    /\ db' = InsertRow(db, [id |-> NextId(db),
                            search_text |-> call[p].search_text,
                            analysis_timestamp |-> call[p].stamp,
                            analysis_data |-> JsonDumps(call[p].result)])
    /\ lock' = 0
    /\ call' = [call EXCEPT ![p].written = Append(@, NextId(db))]
    /\ pc' = [pc EXCEPT ![p] = "returned"]
    /\ UNCHANGED <<now, runs, search, api, market, saver, reply>>

\* The caller has taken the result or the exception.
Reset(p) ==
    /\ pc[p] \in {"returned", "raised"}
    /\ call' = [call EXCEPT ![p] = IdleCall]
    /\ pc' = [pc EXCEPT ![p] = "idle"]
    /\ UNCHANGED <<db, lock, now, runs, search, api, market, saver, reply>>

\* What a call does: it returns a value, returns None, or raises.
Returns(v) ==
    [kind |-> "return", none |-> FALSE, value |-> v, exc |-> "", status |-> 0, msg |-> ""]
ReturnsNone ==
    [kind |-> "return", none |-> TRUE, value |-> 0, exc |-> "", status |-> 0, msg |-> ""]
Raises(exc, status, msg) ==
    [kind |-> "raise", none |-> FALSE, value |-> 0, exc |-> exc, status |-> status,
     msg |-> msg]
NoCall == [kind |-> "", none |-> FALSE, value |-> 0, exc |-> "", status |-> 0, msg |-> ""]

\* An HTTP response: its status and the fields of its JSON body.
NoDetail == [text |-> "", e |-> ""]
Response(status, message, analysis_id, detail, items) ==
    [status |-> status, message |-> message, analysis_id |-> analysis_id,
     detail |-> detail, items |-> items]
NoRequest == [brand_id |-> 0, catalog_id |-> 0, status_id |-> 0, access_token |-> ""]

\* The API and the analysis store before any request.
IdleApi == [served |-> 0, endpoint |-> "", user_id |-> 0, request |-> NoRequest,
            path_id |-> 0, find |-> NoCall, end |-> NoCall, log |-> <<>>,
            response |-> Response(0, "", 0, NoDetail, <<>>),
            generated |-> {}, issued |-> {}, stored |-> {}]
EmptyStore == [analyses |-> {}, prices |-> {}, lock |-> 0, now |-> 0, saves |-> 0]
NoData == [productName |-> "", avgPrice |-> 0]
NoRow == [id |-> 0, user_id |-> 0, product_name |-> "", avg_price |-> 0,
          created_at |-> 0, updated_at |-> 0]
IdleSaver == [pc |-> "idle", user_id |-> 0, data |-> NoData, analysis_id |-> 0,
              timestamp |-> 0, existing |-> NoRow, found |-> FALSE,
              analyses |-> {}, prices |-> {}, exc |-> "", at |-> ""]
NoReply == [op |-> "", user_id |-> 0, analysis_id |-> 0, found |-> FALSE,
            analysis |-> NoRow, priceEvolution |-> <<>>, analyses |-> <<>>,
            raised |-> FALSE, status |-> 0, detail |-> ""]

Init ==
    /\ db = <<>>
    /\ lock = 0
    /\ now = 0
    /\ runs = 0
    /\ pc = [p \in Procs |-> "idle"]
    /\ call = [p \in Procs |-> IdleCall]
    /\ search = IdleSearch
    /\ api = IdleApi
    /\ market = EmptyStore
    /\ saver = [p \in Procs |-> IdleSaver]
    /\ reply = NoReply

\* One caller making its calls one after the other.
Next ==
    \/ FetchFails(1, HistRequests, MaxRuns)
    \/ Fetch(1, HistRequests, MaxRuns)
    \/ Kpis(1)
    \/ SaveStamp(1)
    \/ SaveInsert(1)
    \/ SaveCommit(1)
    \/ Reset(1)

Spec == Init /\ [][Next]_vars

\* Concurrent callers sharing the history store.
NextConc ==
    \/ \E p \in Procs : FetchFails(p, ConcRequests, MaxConcRuns)
    \/ \E p \in Procs : Fetch(p, ConcRequests, MaxConcRuns)
    \/ \E p \in Procs : Kpis(p)
    \/ \E p \in Procs : SaveStamp(p)
    \/ \E p \in Procs : SaveInsert(p)
    \/ \E p \in Procs : SaveLocked(p)
    \/ \E p \in Procs : SaveCommit(p)
    \/ \E p \in Procs : Reset(p)

SpecConc == Init /\ [][NextConc]_vars

\* One call on every batch of at most MaxItems raw items.
NextNorm ==
    \/ Fetch(1, NormRequests, 1)
    \/ Kpis(1)
    \/ SaveStamp(1)
    \/ SaveInsert(1)
    \/ SaveCommit(1)
    \/ Reset(1)

\* The clock stands at its last value: the normalizer does not read it.
InitNorm ==
    /\ db = <<>>
    /\ lock = 0
    /\ now = MaxClock
    /\ runs = 0
    /\ pc = [p \in Procs |-> "idle"]
    /\ call = [p \in Procs |-> IdleCall]
    /\ search = IdleSearch
    /\ api = IdleApi
    /\ market = EmptyStore
    /\ saver = [p \in Procs |-> IdleSaver]
    /\ reply = NoReply

SpecNorm == InitNorm /\ [][NextNorm]_vars

\* One call on every batch of at most MaxKpiItems items the normalizer keeps.
NextKpi ==
    \/ Fetch(1, KpiRequests, 1)
    \/ Kpis(1)
    \/ SaveStamp(1)
    \/ SaveInsert(1)
    \/ SaveCommit(1)
    \/ Reset(1)

SpecKpi == InitNorm /\ [][NextKpi]_vars

-----------------------------------------------------------------------------
(* analyze_market_by_search.py: search_vinted_items *)

SearchStart ==
    /\ search.phase = "idle"
    /\ search' = [search EXCEPT !.phase = "paging", !.page = 1]
    /\ UNCHANGED <<db, lock, now, runs, pc, call, api, market, saver, reply>>

\* A page request fails: an HTTP error or a network error is raised as
\* ConnectionError; a body that is not JSON is, with the requests version,
\* a RequestException (ConnectionError) or a json.JSONDecodeError (KeyError);
\* a JSON body that is not an object has no .get (AttributeError).
SearchPageFails ==
    /\ search.phase = "paging"
    /\ \E e \in {"ConnectionError", "KeyError", "AttributeError"} :
        search' = [search EXCEPT !.phase = "done", !.exc = e]
    /\ UNCHANGED <<db, lock, now, runs, pc, call, api, market, saver, reply>>

\* A page of items: an empty page ends the loop, as does the last page.
SearchPage ==
    /\ search.phase = "paging"
    /\ \E items \in SeqsUpTo(SearchItems, MaxPageItems) :
        search' =
            IF items = <<>> THEN [search EXCEPT !.phase = "fetched"]
            ELSE [search EXCEPT !.all_items = @ \o items,
                                !.page = @ + 1,
                                !.phase = IF search.page = page_limit
                                          THEN "fetched" ELSE "paging"]
    /\ UNCHANGED <<db, lock, now, runs, pc, call, api, market, saver, reply>>

\* After the loop: no item at all is a ValueError; else the sold items are
\* analysed, or the available ones when nothing was sold.
SearchAnalyze ==
    /\ search.phase = "fetched"
    /\ \E t \in ClockReadings :
        LET sold_items == SelectSeq(search.all_items, IsSold)
            available_items == SelectSeq(search.all_items, LAMBDA item : ~IsSold(item))
            out == IF sold_items = <<>>
                   THEN analyze_available_items(available_items, t)
                   ELSE analyze_sold_items(sold_items, available_items, t)
        IN  /\ search' =
                IF search.all_items = <<>>
                THEN [search EXCEPT !.phase = "done", !.exc = "ValueError"]
                ELSE [search EXCEPT !.phase = "done", !.exc = out.exc,
                                    !.result = out.result,
                                    !.branch = IF sold_items = <<>> THEN "available"
                                               ELSE "sold"]
            /\ now' = t
    /\ UNCHANGED <<db, lock, runs, pc, call, api, market, saver, reply>>

NextSearch ==
    \/ SearchStart
    \/ SearchPageFails
    \/ SearchPage
    \/ SearchAnalyze

SpecSearch == InitNorm /\ [][NextSearch]_vars

-----------------------------------------------------------------------------
(* Properties of the history store and of the trend *)

\* The call of process p has computed its KPIs from call[p].hist.
KpisDone(p) ==
    /\ pc[p] \in {"save", "insert", "commit", "returned"}
    /\ call[p].path = "normal"

Trend(p) == call[p].result.kpis.tendancePrix30Jours
BatchSum(p) == SeqSum(Prices(call[p].records))
BatchSize(p) == Len(call[p].records)

RowsOf(key) == {i \in DOMAIN db : db[i].search_text = key}

\* C1: a call that returns a result has appended exactly one snapshot, stored
\* under its search_text and holding the result it returns, on the
\* zero-items path, the all-records-dropped path and the normal path alike; a
\* call that ends in a connectivity error has appended none.
C1_OneSnapshotPerResult ==
    \A p \in Procs :
        /\ pc[p] = "returned" =>
            /\ call[p].path \in {"zero", "dropped", "normal"}
            /\ Len(call[p].written) = 1
            /\ \E i \in DOMAIN db :
                /\ db[i].id = call[p].written[1]
                /\ db[i].search_text = call[p].search_text
                /\ JsonLoads(db[i].analysis_data) = call[p].result
                /\ \A j \in DOMAIN db : db[j].id = db[i].id => j = i
        /\ (pc[p] = "raised" /\ call[p].exc = "ConnectionError") =>
            /\ call[p].written = <<>>
            /\ call[p].result = <<>>

\* C1 witness: one call has returned the empty result of a batch whose
\* records were all dropped, with its snapshot in the store, while another
\* has ended in a connectivity error.
C1_Witness ==
    \E p, q \in Procs :
        /\ pc[p] = "returned" /\ call[p].path = "dropped"
        /\ Len(db) = 1 /\ db[1].id = call[p].written[1]
        /\ pc[q] = "raised" /\ call[q].exc = "ConnectionError"

\* C2: in every step of every interleaving of analysis runs, the rows
\* already in the store keep their place, key, timestamp and data, and a
\* completed save adds exactly one row, with a fresh id, holding the saving
\* run's key, timestamp and result: no insert is lost.
C2_AppendOnly ==
    [][/\ \A i \in DOMAIN db : i \in DOMAIN db' /\ db'[i] = db[i]
       /\ \A p \in Procs :
            (pc[p] = "commit" /\ pc'[p] = "returned") =>
                /\ Len(db') = Len(db) + 1
                /\ db'[Len(db')].search_text = call[p].search_text
                /\ db'[Len(db')].analysis_timestamp = call[p].stamp
                /\ JsonLoads(db'[Len(db')].analysis_data) = call[p].result
                /\ \A i \in DOMAIN db : db[i].id # db'[Len(db')].id]_vars

\* C2 witness: two runs for the same key have interleaved their saves (the
\* run that read the clock later committed first) and both rows are stored.
C2_Witness ==
    /\ Len(db) = 2
    /\ db[1].search_text = db[2].search_text
    /\ db[1].analysis_timestamp > db[2].analysis_timestamp
    /\ \A p \in Procs : pc[p] = "returned"

\* C3 as stated: with one stored snapshot the trend is 0.0, and with two
\* stored snapshots of averages 20 (newest) and 10 (oldest) it is 100.0.
C3_Original ==
    KpisDone(1) =>
        /\ Len(call[1].hist) = 1 => Trend(1) = 0
        /\ (Len(call[1].hist) = 2 /\ historical_prices(call[1].hist) = <<2000, 1000>>)
            => Trend(1) = 10000

\* C3 amended: with one stored snapshot the trend is 0.0; with two stored
\* snapshots of averages 20 (newest) and 10 (oldest) the trend is
\* round((current_average - 10) / 10 * 100, 2), current_average being the
\* mean price of the batch under analysis, which is 100.0 when that mean is 20.
C3_TrendOfTwo ==
    KpisDone(1) =>
        /\ Len(call[1].hist) = 1 => Trend(1) = 0
        /\ (Len(call[1].hist) = 2 /\ historical_prices(call[1].hist) = <<2000, 1000>>)
            => /\ Trend(1) = RoundHalfEven(10000 * (BatchSum(1) - BatchSize(1) * 1000),
                                           BatchSize(1) * 1000)
               /\ BatchSum(1) = 2000 * BatchSize(1) => Trend(1) = 10000

\* C3 witness: a batch of mean 20 analysed over the snapshots 20 (newest) and
\* 10 (oldest) has the trend 100.0.
C3_Witness ==
    /\ pc[1] = "returned" /\ call[1].path = "normal"
    /\ historical_prices(call[1].hist) = <<2000, 1000>>
    /\ call[1].hist[1].analysisTimestamp > call[1].hist[2].analysisTimestamp
    /\ BatchSum(1) = 2000 * BatchSize(1)
    /\ Trend(1) = 10000

\* round(num / den), half to even, for a divisor of either sign.
RoundQuotient(num, den) ==
    IF den > 0 THEN RoundHalfEven(num, den) ELSE RoundHalfEven(0 - num, 0 - den)

\* C4: with at least 2 historical averages, the trend is
\* round((current_average - oldest) / oldest * 100, 2), oldest being the
\* average of the last snapshot of the history read most-recent-first with
\* limit 30; it is 0.0 when that oldest average is 0.
C4_TrendFormula ==
    (KpisDone(1) /\ Len(historical_prices(call[1].hist)) >= 2) =>
        LET hp == historical_prices(call[1].hist)
            oldest == hp[Len(hp)]
        IN  /\ Len(call[1].hist) <= TrendLimit
            /\ oldest = call[1].hist[Len(call[1].hist)].analysisData.priceAnalysis.average
            /\ Trend(1) = IF oldest = 0 THEN 0
                          ELSE RoundQuotient(10000 * (BatchSum(1) - BatchSize(1) * oldest),
                                             BatchSize(1) * oldest)

\* C5: with fewer than 2 historical average-price points for the key (no
\* snapshot, or one) the trend of a non-empty analysis is 0.0, and the call
\* raises nothing but a connectivity error.
C5_NoTrendWithoutHistory ==
    /\ (KpisDone(1) /\ Len(historical_prices(call[1].hist)) < 2) => Trend(1) = 0
    /\ (KpisDone(1) /\ pc[1] # "returned"
            /\ Cardinality(RowsOf(call[1].search_text)) < 2) => Trend(1) = 0
    /\ pc[1] = "raised" => call[1].exc = "ConnectionError"

\* C5 witness: a batch analysed over a single snapshot whose average is
\* positive and differs from the batch's mean has the trend 0.0.
C5_Witness ==
    /\ pc[1] = "returned" /\ call[1].path = "normal"
    /\ Len(call[1].hist) = 1
    /\ historical_prices(call[1].hist)[1] > 0
    /\ BatchSum(1) # BatchSize(1) * historical_prices(call[1].hist)[1]
    /\ Trend(1) = 0

\* The last n matching row positions, the latest written first.
RECURSIVE LatestWritten(_, _)
LatestWritten(S, n) ==
    IF S = {} \/ n = 0 THEN <<>>
    ELSE LET m == CHOOSE x \in S : \A y \in S : y <= x
         IN  <<m>> \o LatestWritten(S \ {m}, n - 1)

\* C6 as stated: a history query returns at most limit snapshots, all of the
\* key, and they are the limit most recently written ones in reverse write
\* order.
C6_Original ==
    \A key \in Keys, limit \in 1..MaxLimit :
        \A sel \in SelectHistory(db, key, limit) :
            /\ Len(sel) <= limit
            /\ \A i \in DOMAIN sel : db[sel[i]].search_text = key
            /\ sel = LatestWritten(RowsOf(key), limit)

\* C6 amended: a history query returns at most limit snapshots (all of them
\* when the key has no more than limit), each a different row of the key,
\* in non-increasing order of analysis_timestamp, and no row left out has a
\* later timestamp than a row returned; rows written with timestamps that
\* do not increase come in timestamp order, not in reverse write order.
C6_NewestTimestampsFirst ==
    \A key \in Keys, limit \in 1..MaxLimit :
        /\ \A sel \in SelectHistory(db, key, limit) :
            /\ Len(sel) <= limit
            /\ Len(sel) = limit \/ Len(sel) = Cardinality(RowsOf(key))
            /\ \A i \in DOMAIN sel : sel[i] \in RowsOf(key)
            /\ \A i, j \in DOMAIN sel : i # j => sel[i] # sel[j]
            /\ \A i, j \in DOMAIN sel :
                i < j => db[sel[i]].analysis_timestamp >= db[sel[j]].analysis_timestamp
            /\ \A i \in DOMAIN sel :
                \A r \in RowsOf(key) \ {sel[k] : k \in DOMAIN sel} :
                    db[r].analysis_timestamp <= db[sel[i]].analysis_timestamp
        /\ \A h \in get_historical_analyses(db, key, limit) :
            /\ Len(h) <= limit
            /\ \A i, j \in DOMAIN h :
                i < j => h[i].analysisTimestamp >= h[j].analysisTimestamp

\* C6 witness: the key has two snapshots, the first written with the later
\* timestamp, and a query with limit 1 returns that first-written one.
C6_Witness ==
    \E key \in Keys :
        /\ RowsOf(key) = {1, 2}
        /\ db[1].analysis_timestamp > db[2].analysis_timestamp
        /\ SelectHistory(db, key, 1) = {<<1>>}

-----------------------------------------------------------------------------
(* Properties of the normalizer and of the aggregates *)

\* C7: in a normalizing loop a malformed raw item (a missing key, a null or
\* wrong-typed nested value, a non-numeric price) is skipped alone: the call
\* raises nothing because of it (at most the ValueError of a batch with no
\* valid record) and retains every item whose fields are well formed.
C7_MalformedItemSkippedAlone ==
    (search.phase = "done" /\ search.branch # "") =>
        /\ search.exc \in {"none", "ValueError"}
        /\ search.exc = "none" =>
            Len(IF search.branch = "sold" THEN search.result.soldItems
                ELSE search.result.availableItems)
            = Cardinality({i \in DOMAIN search.all_items :
                /\ IsSold(search.all_items[i]) <=> search.branch = "sold"
                /\ SearchRecord(search.all_items[i]).exc = "none"})

\* C8: every record the normalizer retains has a finite non-negative price and
\* string brand and condition, and no more records are retained than there
\* are raw items.
C8_NormalizedShape ==
    \A p \in Procs :
        /\ Len(call[p].records) <= Len(call[p].data)
        /\ \A i \in DOMAIN call[p].records :
            /\ call[p].records[i].price # NaN
            /\ call[p].records[i].price >= 0
            /\ IsStr(call[p].records[i].brand)
            /\ IsStr(call[p].records[i].condition)

\* C9: in every result the counts of brandDistribution sum to
\* summary.itemsFound, which is the number of retained records.
C9_BrandCountsSumToItems ==
    \A p \in Procs :
        pc[p] = "returned" =>
            /\ DistTotal(call[p].result.brandDistribution)
                = call[p].result.summary.itemsFound
            /\ call[p].result.summary.itemsFound = Len(call[p].records)

\* C10: the seller count never exceeds the item count: sellersCount <=
\* itemsFound in analyze_market_by_product_name and competitorCount <=
\* similarSoldItemsFound in analyze_sold_items.
C10_SellersWithinItems ==
    /\ \A p \in Procs :
        pc[p] = "returned" =>
            call[p].result.summary.sellersCount <= call[p].result.summary.itemsFound
    /\ (search.phase = "done" /\ search.exc = "none" /\ search.branch = "sold") =>
        search.result.summary.competitorCount
            <= search.result.summary.similarSoldItemsFound

-----------------------------------------------------------------------------
(* Properties of the empty result and of the outcomes of a call *)

\* The raw item has no seller login: its user key is absent or holds no
\* object, or the object has no login key.
LacksSeller(item) == item.user.kind # "dict" \/ item.user.login = Absent

\* The call of process p has normalized its batch.
Normalized(p) == pc[p] # "idle" /\ call[p].data # <<>>

\* C11: a raw item whose seller object or seller login is absent is dropped
\* by the normalizer (every retained record carries the login of an item that
\* has one, and no more records are retained than there are such items); a
\* batch in which every item lacks the seller login yields the canonical
\* empty result and the call does not raise.
C11_SellerlessItemDropped ==
    \A p \in Procs :
        Normalized(p) =>
            LET data == call[p].data
                with_login == {i \in DOMAIN data : ~LacksSeller(data[i])}
            IN  /\ Len(call[p].records) <= Cardinality(with_login)
                /\ \A k \in DOMAIN call[p].records :
                    \E i \in with_login :
                        call[p].records[k].seller_login = data[i].user.login
                /\ with_login = {} =>
                    /\ call[p].path = "dropped"
                    /\ pc[p] # "raised"
                    /\ call[p].result =
                        [analysisTimestamp |-> call[p].result.analysisTimestamp,
                         priceAnalysis |-> [min |-> 0, max |-> 0, average |-> 0, median |-> 0],
                         summary |-> [itemsFound |-> 0, sellersCount |-> 0],
                         brandDistribution |-> <<>>,
                         conditionDistribution |-> <<>>,
                         kpis |-> <<>>]

\* C11 witness: a batch of two items with numeric prices, one without the
\* user key and one whose user object has no login key, has returned the
\* empty result and stored it.
C11_Witness ==
    /\ pc[1] = "returned" /\ call[1].path = "dropped"
    /\ Len(call[1].data) = 2
    /\ \A i \in DOMAIN call[1].data :
        /\ PriceOf(call[1].data[i].price).exc = "none"
        /\ LacksSeller(call[1].data[i])
    /\ call[1].data[1].user.kind = "absent"
    /\ call[1].data[2].user.kind = "dict"
    /\ Len(db) = 1 /\ JsonLoads(db[1].analysis_data) = call[1].result

\* The canonical empty result, its timestamp apart.
CanonicalEmpty(result) ==
    /\ DOMAIN result = {"analysisTimestamp", "priceAnalysis", "summary",
                        "brandDistribution", "conditionDistribution", "kpis"}
    /\ result.priceAnalysis = [min |-> 0, max |-> 0, average |-> 0, median |-> 0]
    /\ result.summary = [itemsFound |-> 0, sellersCount |-> 0]
    /\ DOMAIN result.brandDistribution = {}
    /\ DOMAIN result.conditionDistribution = {}
    /\ DOMAIN result.kpis = {}

\* C12: the result for an upstream response with zero items and the result
\* for a batch whose items all fail normalization are the canonical empty
\* result (priceAnalysis all 0, itemsFound 0, sellersCount 0, empty brand and
\* condition distributions, kpis the empty mapping), and two such results
\* differ in analysisTimestamp at most.
C12_SameEmptyResult ==
    \A p, q \in Procs :
        (pc[p] # "idle" /\ call[p].path = "zero"
            /\ pc[q] # "idle" /\ call[q].path = "dropped") =>
            /\ CanonicalEmpty(call[p].result)
            /\ CanonicalEmpty(call[q].result)
            /\ [call[p].result EXCEPT !.analysisTimestamp = 0]
                = [call[q].result EXCEPT !.analysisTimestamp = 0]

\* C12 witness: a call on an empty response and a call on a batch whose only
\* item has a non-numeric price have both returned, at different times.
C12_Witness ==
    \E p, q \in Procs :
        /\ pc[p] = "returned" /\ call[p].path = "zero" /\ call[p].data = <<>>
        /\ pc[q] = "returned" /\ call[q].path = "dropped" /\ call[q].data = <<ItemBad>>
        /\ call[p].result.analysisTimestamp # call[q].result.analysisTimestamp
        /\ Len(db) = 2

ResultKeys ==
    {"analysisTimestamp", "priceAnalysis", "summary", "brandDistribution",
     "conditionDistribution", "kpis"}

\* C13: an upstream response with zero items never raises: a call of
\* analyze_market_by_product_name on it does not end in an exception, and a
\* search_vinted_items run whose pages held no item ends with a result.
C13_ZeroItemsNeverRaise ==
    [][/\ \A p \in Procs : call'[p].path = "zero" => pc'[p] # "raised"
       /\ (search.phase = "fetched" /\ search.all_items = <<>>
                /\ search'.phase = "done") =>
            /\ search'.exc = "none"
            /\ search'.result # <<>>]_vars

\* C14: every analysis call ends either with a result object carrying all
\* of analysisTimestamp, priceAnalysis, summary, brandDistribution,
\* conditionDistribution and kpis, or with a ConnectionError; no exception
\* of another type and no result lacking one of these reaches the caller.
C14_ResultOrConnectionError ==
    /\ \A p \in Procs :
        /\ pc[p] = "returned" => ResultKeys \subseteq DOMAIN call[p].result
        /\ pc[p] = "raised" => call[p].exc = "ConnectionError"
    /\ search.phase = "done" =>
        \/ search.exc = "ConnectionError"
        \/ search.exc = "none" /\ ResultKeys \subseteq DOMAIN search.result

\* C15: a failure of the history write does not invalidate the analysis: a
\* call that has computed its result ends by returning it, also when
\* save_analysis raised.
C15_ResultSurvivesSaveFailure ==
    \A p \in Procs :
        (call[p].result # <<>> /\ pc[p] \in {"returned", "raised"}) =>
            pc[p] = "returned"

\* C16: two analysis runs given identical input batches produce identical
\* priceAnalysis, summary, brandDistribution and conditionDistribution,
\* whatever snapshots the history store held when each of them ran.
C16_SameBatchSameAggregates ==
    \A p, q \in Procs :
        (pc[p] = "returned" /\ pc[q] = "returned" /\ call[p].data = call[q].data) =>
            /\ call[p].result.priceAnalysis = call[q].result.priceAnalysis
            /\ call[p].result.summary = call[q].result.summary
            /\ call[p].result.brandDistribution = call[q].result.brandDistribution
            /\ call[p].result.conditionDistribution
                = call[q].result.conditionDistribution

\* C16 witness: two runs on the same one-item batch for the same key have
\* returned, the first on an empty history and the second on a history
\* holding the first run's snapshot.
C16_Witness ==
    \E p, q \in Procs :
        /\ pc[p] = "returned" /\ pc[q] = "returned"
        /\ call[p].data = <<Item10>> /\ call[q].data = <<Item10>>
        /\ call[p].search_text = call[q].search_text
        /\ call[p].hist = <<>>
        /\ Len(call[q].hist) = 1
        /\ call[q].hist[1].analysisData = call[p].result
        /\ call[p].result.summary.itemsFound = 1

-----------------------------------------------------------------------------
(* Properties of the statistics and of the KPIs *)

\* The call of process 1 has returned the analysis of a non-empty batch of
\* retained records.
Analysed == pc[1] = "returned" /\ call[1].path = "normal"

RetainedPrices == Prices(call[1].records)
PriceAnalysisOf == call[1].result.priceAnalysis
KpisOf == call[1].result.kpis

\* a <= b between floats: false when either is NaN.
NumLeq(a, b) == a # NaN /\ b # NaN /\ a <= b

\* C17: for every non-empty retained batch the returned priceAnalysis has
\* min <= median <= max, min being the least and max the greatest of the
\* retained prices.
C17_MedianBetweenMinAndMax ==
    Analysed =>
        /\ NumLeq(PriceAnalysisOf.min, PriceAnalysisOf.median)
        /\ NumLeq(PriceAnalysisOf.median, PriceAnalysisOf.max)
        /\ \E i \in DOMAIN RetainedPrices : RetainedPrices[i] = PriceAnalysisOf.min
        /\ \E i \in DOMAIN RetainedPrices : RetainedPrices[i] = PriceAnalysisOf.max
        /\ \A i \in DOMAIN RetainedPrices :
            /\ NumLeq(PriceAnalysisOf.min, RetainedPrices[i])
            /\ NumLeq(RetainedPrices[i], PriceAnalysisOf.max)

\* The k-th price of the batch in sorted order, NaN sorting after every
\* number.
SortedKth(prices, k) ==
    LET keys == [i \in DOMAIN prices |->
                    IF prices[i] = NaN THEN 0 - NaN ELSE prices[i]]
        x == KthSmallest(keys, k)
    IN  IF x = 0 - NaN THEN NaN ELSE x

\* C18: the median is the middle price of an odd-sized batch and the mean of
\* the two middle prices of an even-sized one, and the average is the
\* arithmetic mean of the batch rounded to 2 decimals; prices [10, 20, 30,
\* 40] give min 10, max 40, average 25.00 and median 25.0, and prices
\* [10, 20, 30] give median 20.0.
C18_MedianAndAverage ==
    Analysed =>
        LET n == Len(RetainedPrices)
            lo == SortedKth(RetainedPrices, n \div 2)
            hi == SortedKth(RetainedPrices, n \div 2 + 1)
        IN  /\ n % 2 = 1 => PriceAnalysisOf.median = hi
            /\ n % 2 = 0 =>
                IF lo = NaN \/ hi = NaN THEN PriceAnalysisOf.median = NaN
                ELSE /\ PriceAnalysisOf.median # NaN
                     /\ 2 * PriceAnalysisOf.median = lo + hi
            /\ PriceAnalysisOf.average =
                IF \E i \in DOMAIN RetainedPrices : RetainedPrices[i] = NaN THEN NaN
                ELSE RoundHalfEven(SeqSum(RetainedPrices), n)
            /\ RetainedPrices = <<1000, 2000, 3000, 4000>> =>
                PriceAnalysisOf =
                    [min |-> 1000, max |-> 4000, average |-> 2500, median |-> 2500]
            /\ RetainedPrices = <<1000, 2000, 3000>> => PriceAnalysisOf.median = 2000

\* C19 as stated: recommendedPrice is round(average * 0.95, 2) of the
\* result's average price when that average is > 0 and 0 otherwise; it is
\* 95.0 for an average of 100.0.
C19_Original ==
    Analysed =>
        /\ KpisOf.prixOptimalRecommande =
            IF PriceAnalysisOf.average # NaN /\ PriceAnalysisOf.average > 0
            THEN RoundHalfEven(95 * PriceAnalysisOf.average, 100)
            ELSE 0
        /\ PriceAnalysisOf.average = 10000 => KpisOf.prixOptimalRecommande = 9500

\* C19 amended: recommendedPrice is round(m * 0.95, 2), m being the mean of
\* the retained prices before it is rounded (NaN prices left out, as in the
\* result's average), when m > 0, and 0 otherwise; it is within 0.01 of
\* round(average * 0.95, 2) of the result's rounded average, and it is 95.0
\* when the mean is 100.0.
C19_RecommendedFromMean ==
    Analysed =>
        LET f == Finite(RetainedPrices)
            prix == KpisOf.prixOptimalRecommande
            of_rounded == IF PriceAnalysisOf.average # NaN /\ PriceAnalysisOf.average > 0
                          THEN RoundHalfEven(95 * PriceAnalysisOf.average, 100)
                          ELSE 0
        IN  /\ prix = IF f # <<>> /\ SeqSum(f) > 0
                      THEN RoundHalfEven(95 * SeqSum(f), 100 * Len(f))
                      ELSE 0
            /\ prix - of_rounded \in {0 - 1, 0, 1}
            /\ (f # <<>> /\ SeqSum(f) = 10000 * Len(f)) => prix = 9500

\* C19 witness: the analysis of a batch whose mean price is 100.0 has the
\* average 100.0 and the recommended price 95.0.
C19_Witness ==
    /\ Analysed
    /\ call[1].data = <<Item100>>
    /\ PriceAnalysisOf.average = 10000
    /\ KpisOf.prixOptimalRecommande = 9500

\* C20: competitivenessScore is round((1 / (priceStdDev + 1)) * sellersCount,
\* 2), priceStdDev being the sample standard deviation of the retained
\* prices and 0 for fewer than 2 records, and it is 0.0 when sellersCount is
\* 0; hence 0 <= competitivenessScore <= sellersCount.
C20_CompetitivenessScore ==
    Analysed =>
        LET n == Len(RetainedPrices)
            S == call[1].result.summary.sellersCount
            score == KpisOf.scoreCompetitivite
            var == SampleVariance(RetainedPrices)
        IN  /\ score # NaN
            /\ 0 <= score /\ score <= 100 * S
            /\ S = 0 => score = 0
            /\ (S > 0 /\ n < 2) => score = 100 * S
            /\ (S > 0 /\ n >= 2 /\ Finite(RetainedPrices) = RetainedPrices) =>
                score = RoundedScore(var[1], var[2], S)

\* C21: turnoverRate is (itemsFound / (itemsFound * 2)) * 100: 50.0 in every
\* result with itemsFound > 0, and 0.0 from the KPI calculator when
\* itemsFound is 0 (an empty frame).
C21_TurnoverRate ==
    /\ Analysed =>
        /\ call[1].result.summary.itemsFound > 0
        /\ KpisOf.tauxDeRotation = 5000
        /\ KpisOf.tauxDeRotation * (call[1].result.summary.itemsFound * 2)
            = call[1].result.summary.itemsFound * 10000
    /\ \A h \in get_historical_analyses(db, "nike air", TrendLimit) :
        calculate_kpis(<<>>, h).tauxDeRotation = 0

\* C21 witness: the analysis of a batch of three items has the turnover
\* rate 50.0.
C21_Witness ==
    /\ Analysed
    /\ call[1].result.summary.itemsFound = 3
    /\ KpisOf.tauxDeRotation = 5000

\* C22: in every computed KPI block relativeMarketShare and priceElasticity
\* are the string "N/A", for every batch and every state of the history.
C22_SentinelsNotAvailable ==
    \A p \in Procs :
        KpisDone(p) =>
            /\ call[p].result.kpis.partDeMarcheRelative = "N/A"
            /\ call[p].result.kpis.elasticitePrix = "N/A"

\* C22 witness: a KPI block computed over a history of two snapshots, with a
\* trend that is not 0, carries both sentinels.
C22_Witness ==
    /\ pc[1] = "returned" /\ call[1].path = "normal"
    /\ Len(call[1].hist) = 2
    /\ Trend(1) # 0
    /\ call[1].result.kpis.partDeMarcheRelative = "N/A"
    /\ call[1].result.kpis.elasticitePrix = "N/A"

-----------------------------------------------------------------------------
(* Properties of the order of the history read and the history write *)

\* The ids a call was given by its history queries.
IdsRead(p) == UNION {{call[p].reads[k][i] : i \in DOMAIN call[p].reads[k]} :
                        k \in DOMAIN call[p].reads}

\* C26 as stated: every run that returns a result has made exactly one
\* history read and then exactly one history write, and the snapshot it
\* appended is not among the rows it read.
C26_Original ==
    \A p \in Procs :
        pc[p] = "returned" =>
            /\ Len(call[p].reads) = 1
            /\ Len(call[p].written) = 1
            /\ \A id \in IdsRead(p) : id < call[p].written[1]

\* C26 amended: a run that returns the analysis of a non-empty batch has
\* made exactly one history read and then exactly one history write, the
\* read before the write, so that the snapshot it appended is not among the
\* rows its trend was computed from; a run that returns the empty result
\* has made no history read and exactly one history write.
C26_ReadThenWrite ==
    \A p \in Procs :
        /\ (pc[p] = "returned" /\ call[p].path = "normal") =>
            /\ Len(call[p].reads) = 1
            /\ Len(call[p].hist) = Len(call[p].reads[1])
            /\ Len(call[p].written) = 1
            /\ \A id \in IdsRead(p) : id < call[p].written[1]
        /\ (pc[p] = "returned" /\ call[p].path \in {"zero", "dropped"}) =>
            /\ call[p].reads = <<>>
            /\ Len(call[p].written) = 1
        /\ pc[p] \in {"idle", "kpis"} => call[p].written = <<>>
        /\ call[p].written # <<>> => pc[p] = "returned"

\* C26 witness: a run for a key that had one snapshot has read that
\* snapshot, computed its KPIs from it and then appended its own.
C26_Witness ==
    \E p \in Procs :
        /\ pc[p] = "returned" /\ call[p].path = "normal"
        /\ Len(call[p].reads) = 1 /\ Len(call[p].reads[1]) = 1
        /\ call[p].written = <<call[p].reads[1][1] + 1>>
        /\ Len(db) = 2 /\ db[1].search_text = db[2].search_text

-----------------------------------------------------------------------------
(* api/main.py, api/database.py, api/dependencies.py: the analysis API *)

MaxApiRequests == 3

ApiUsers == {1, 2}
\* A bearer token names a user of the users table, or nobody (0).
Credentials == ApiUsers \cup {0}
AnalysisRequests ==
    [brand_id : {1, 2}, catalog_id : {5}, status_id : {6}, access_token : {"token"}]
Uuids == 1..MaxApiRequests

\* What find_representative_item and analyze_similar_sold_items can do.
FindOutcomes ==
    {Returns(101), ReturnsNone,
     Raises("ConnectionError", 0, "Authentication failed"),
     Raises("ValueError", 0, "No items found")}
AnalyzeOutcomes(item_id) ==
    {Returns(item_id * 10),
     Raises("ConnectionError", 0, "Network error"),
     Raises("KeyError", 0, "The API response is invalid")}

\* The classes an exception is an instance of.
Bases(exc) ==
    CASE exc = "ConnectionError" -> {"ConnectionError", "OSError", "Exception"}
      [] exc = "ValueError" -> {"ValueError", "Exception"}
      [] exc = "KeyError" -> {"KeyError", "LookupError", "Exception"}
      [] exc = "HTTPException" -> {"HTTPException", "Exception"}
      [] exc = "Exception" -> {"Exception"}
      [] OTHER -> {"BaseException"}

\* dependencies.py: the user of a token, or 401.
get_current_user(cred) ==
    IF cred \in ApiUsers THEN Returns(cred)
    ELSE Raises("HTTPException", 401, "Invalid authentication credentials")

\* FastAPI renders an HTTPException that leaves a handler or a dependency.
Rendered(http_exc) ==
    Response(http_exc.status, "", 0, [text |-> http_exc.msg, e |-> ""], <<>>)

\* database.py: an id is generated and returned; no row is written.
save_analysis_to_db(stored, user_id, analysis_data, uuid) ==
    [stored |-> stored, analysis_id |-> uuid]

\* Mutant of TryBody: the similar-items analysis is given the brand id.
TryBodyAnalyzingBrand(request, user_id, stored, find, analyze, uuid) ==
    LET call1 == [fn |-> "find_representative_item",
                  args |-> <<request.brand_id, request.catalog_id,
                             request.status_id, request.access_token>>]
        call2 == [fn |-> "analyze_similar_sold_items",
                  args |-> <<request.brand_id, request.access_token>>]
        call3 == [fn |-> "save_analysis_to_db", args |-> <<user_id, analyze.value>>]
        saved == save_analysis_to_db(stored, user_id, analyze.value, uuid)
    IN  IF find.kind = "raise"
        THEN [log |-> <<call1>>, end |-> find, stored |-> stored]
        ELSE IF find.none
        THEN [log |-> <<call1>>, stored |-> stored,
              end |-> Raises("HTTPException", 404, "Aucun article representatif trouve")]
        ELSE IF analyze.kind = "raise"
        THEN [log |-> <<call1, call2>>, end |-> analyze, stored |-> stored]
        ELSE [log |-> <<call1, call2, call3>>, end |-> Returns(saved.analysis_id),
              stored |-> saved.stored]

\* analyze_market, the body of its try statement: the calls it makes, in
\* order, how it ends, and the table it leaves.
TryBody(request, user_id, stored, find, analyze, uuid) ==
    LET call1 == [fn |-> "find_representative_item",
                  args |-> <<request.brand_id, request.catalog_id,
                             request.status_id, request.access_token>>]
        call2 == [fn |-> "analyze_similar_sold_items",
                  args |-> <<find.value, request.access_token>>]
        call3 == [fn |-> "save_analysis_to_db", args |-> <<user_id, analyze.value>>]
        saved == save_analysis_to_db(stored, user_id, analyze.value, uuid)
    IN  IF find.kind = "raise"
        THEN [log |-> <<call1>>, end |-> find, stored |-> stored]
        ELSE IF find.none
        THEN [log |-> <<call1>>, stored |-> stored,
              end |-> Raises("HTTPException", 404, "Aucun article representatif trouve")]
        ELSE IF analyze.kind = "raise"
        THEN [log |-> <<call1, call2>>, end |-> analyze, stored |-> stored]
        ELSE [log |-> <<call1, call2, call3>>, end |-> Returns(saved.analysis_id),
              stored |-> saved.stored]

SavedMessage == "Analyse de marche sauvegardee avec succes"
AuthenticationError == "Erreur d'authentification"
InternalError == "Erreur interne du serveur"

\* Mutant of ExceptClauses: the clause for Exception comes first.
ExceptClausesGenericFirst(end) ==
    IF end.kind = "return"
    THEN Response(200, SavedMessage, end.value, NoDetail, <<>>)
    ELSE IF "Exception" \in Bases(end.exc)
    THEN Response(500, "", 0, [text |-> InternalError, e |-> end.msg], <<>>)
    ELSE IF "ConnectionError" \in Bases(end.exc)
    THEN Response(401, "", 0, [text |-> AuthenticationError, e |-> end.msg], <<>>)
    ELSE Rendered(end)

\* analyze_market, its return and its except clauses, tried in order.
ExceptClauses(end) ==
    IF end.kind = "return"
    THEN Response(200, SavedMessage, end.value, NoDetail, <<>>)
    ELSE IF "ConnectionError" \in Bases(end.exc)
    THEN Response(401, "", 0, [text |-> AuthenticationError, e |-> end.msg], <<>>)
    ELSE IF "Exception" \in Bases(end.exc)
    THEN Response(500, "", 0, [text |-> InternalError, e |-> end.msg], <<>>)
    ELSE Rendered(end)

\* A request refused by the get_current_user dependency.
Refused(endpoint, cred, request, path_id) ==
    [api EXCEPT !.served = @ + 1, !.endpoint = endpoint, !.user_id = 0,
                !.request = request, !.path_id = path_id, !.find = NoCall,
                !.end = NoCall, !.log = <<>>,
                !.response = Rendered(get_current_user(cred))]

\* POST /api/analyze
ApiAnalyze ==
    /\ api.served < MaxApiRequests
    /\ \E cred \in Credentials, request \in AnalysisRequests :
        LET current_user == get_current_user(cred) IN
        IF current_user.kind = "raise"
        THEN api' = Refused("POST /api/analyze", cred, request, 0)
        ELSE \E find \in FindOutcomes, uuid \in Uuids \ api.generated :
             \E analyze \in AnalyzeOutcomes(find.value) :
                LET body == TryBody(request, current_user.value, api.stored,
                                    find, analyze, uuid)
                    response == ExceptClauses(body.end)
                    ok == body.end.kind = "return"
                IN  api' = [api EXCEPT
                        !.served = @ + 1, !.endpoint = "POST /api/analyze",
                        !.user_id = current_user.value, !.request = request,
                        !.path_id = 0, !.find = find, !.end = body.end,
                        !.log = body.log, !.response = response,
                        !.generated = IF ok THEN @ \cup {uuid} ELSE @,
                        !.issued = IF ok
                                   THEN @ \cup {[id |-> response.analysis_id,
                                                 user_id |-> current_user.value]}
                                   ELSE @,
                        !.stored = body.stored]
    /\ UNCHANGED <<analyzerVars, market, saver, reply>>

\* GET /api/analyses
ApiGetAnalyses ==
    /\ api.served < MaxApiRequests
    /\ \E cred \in Credentials :
        LET current_user == get_current_user(cred) IN
        IF current_user.kind = "raise"
        THEN api' = Refused("GET /api/analyses", cred, NoRequest, 0)
        ELSE api' = [api EXCEPT
                !.served = @ + 1, !.endpoint = "GET /api/analyses",
                !.user_id = current_user.value, !.request = NoRequest,
                !.path_id = 0, !.find = NoCall, !.end = NoCall, !.log = <<>>,
                !.response = Response(200, "", 0, NoDetail, <<>>)]
    /\ UNCHANGED <<analyzerVars, market, saver, reply>>

DeletedMessage == "Analyse supprimee avec succes"

\* DELETE /api/analyses/{analysis_id}
ApiDeleteAnalysis ==
    /\ api.served < MaxApiRequests
    /\ \E cred \in Credentials, analysis_id \in Uuids :
        LET current_user == get_current_user(cred) IN
        IF current_user.kind = "raise"
        THEN api' = Refused("DELETE /api/analyses/{analysis_id}", cred, NoRequest,
                            analysis_id)
        ELSE api' = [api EXCEPT
                !.served = @ + 1, !.endpoint = "DELETE /api/analyses/{analysis_id}",
                !.user_id = current_user.value, !.request = NoRequest,
                !.path_id = analysis_id, !.find = NoCall, !.end = NoCall,
                !.log = <<>>,
                !.response = Response(200, DeletedMessage, analysis_id, NoDetail, <<>>),
                !.issued = {i \in @ : i.id # analysis_id}]
    /\ UNCHANGED <<analyzerVars, market, saver, reply>>

NextApi ==
    \/ ApiAnalyze
    \/ ApiGetAnalyses
    \/ ApiDeleteAnalysis

SpecApi == Init /\ [][NextApi]_vars

-----------------------------------------------------------------------------
(* Properties of the analysis API *)

\* C24: when find_representative_item or analyze_similar_sold_items raises
\* ConnectionError in POST /api/analyze, the response is 401 with the
\* authentication-error detail, the failing call is the last call made, the
\* save is not called, and no id is generated, issued or stored.
C24_ConnectionErrorIs401 ==
    [][(/\ api'.served # api.served
        /\ api'.endpoint = "POST /api/analyze"
        /\ api'.end.kind = "raise"
        /\ api'.end.exc = "ConnectionError")
       => /\ api'.response.status = 401
          /\ api'.response.detail = [text |-> AuthenticationError, e |-> api'.end.msg]
          /\ \A i \in DOMAIN api'.log : api'.log[i].fn # "save_analysis_to_db"
          /\ Len(api'.log) = (IF api'.find.kind = "raise" THEN 1 ELSE 2)
          /\ api'.log[Len(api'.log)].fn =
                (IF api'.find.kind = "raise" THEN "find_representative_item"
                 ELSE "analyze_similar_sold_items")
          /\ api'.stored = api.stored
          /\ api'.issued = api.issued
          /\ api'.generated = api.generated]_vars

\* C24 witness: the representative item was found and the analysis of the
\* similar items raised ConnectionError; the answer is 401.
C24_Witness ==
    /\ api.endpoint = "POST /api/analyze"
    /\ api.find = Returns(101)
    /\ api.end.exc = "ConnectionError"
    /\ Len(api.log) = 2
    /\ api.response.status = 401

\* C25: a POST /api/analyze answered 200 has called find_representative_item
\* once with the request's brand, catalog, status and token, then
\* analyze_similar_sold_items once with the item id found and the token,
\* then the save, and answers with an analysis id and the saved message.
C25_SuccessfulAnalyze ==
    (api.endpoint = "POST /api/analyze" /\ api.response.status = 200) =>
        /\ api.find.kind = "return" /\ ~api.find.none
        /\ Len(api.log) = 3
        /\ api.log[1].fn = "find_representative_item"
        /\ api.log[1].args = <<api.request.brand_id, api.request.catalog_id,
                               api.request.status_id, api.request.access_token>>
        /\ api.log[2].fn = "analyze_similar_sold_items"
        /\ api.log[2].args = <<api.find.value, api.request.access_token>>
        /\ api.log[3].fn = "save_analysis_to_db"
        /\ api.log[3].args[1] = api.user_id
        /\ api.response.message = SavedMessage
        /\ api.response.analysis_id \in Uuids

\* C25 witness: user 2 posted a request for brand 2 and was answered 200.
C25_Witness ==
    /\ api.endpoint = "POST /api/analyze"
    /\ api.response.status = 200
    /\ api.user_id = 2 /\ api.request.brand_id = 2
    /\ Len(api.log) = 3

\* C30: every analysis id issued by a POST answered 200, and not deleted
\* since by a DELETE that reported success, is the id of a stored analysis
\* of the user it was issued to, and is listed by that user's GET.
C30_IssuedAnalysisStored ==
    /\ \A i \in api.issued :
            \E row \in api.stored : row.id = i.id /\ row.user_id = i.user_id
    /\ (api.endpoint = "GET /api/analyses" /\ api.response.status = 200) =>
            \A i \in api.issued :
                i.user_id = api.user_id =>
                    \E k \in DOMAIN api.response.items :
                        api.response.items[k].id = i.id

-----------------------------------------------------------------------------
(* documentation api/database.py and api/main.py: the analysis store.
   market.analyses and market.prices are the committed tables
   market_analyses and historical_prices; a row of historical_prices also
   records, in the field "by", the user whose save inserted it, which no
   query can read.  market.lock is the connection holding the write lock. *)

MaxStoreClock == 1
MaxSaves == 2

StoreUsers == {1, 2}
ProductNames == {"nike", "zara"}
MarketData == [productName : ProductNames, avgPrice : {1000}]
StoreClockReadings == market.now..MaxStoreClock
AnalysisIds == 0..MaxStoreClock

\* SELECT id FROM market_analyses WHERE user_id = ? AND product_name = ?
SelectExisting(rows, user_id, product_name) ==
    {r \in rows : r.user_id = user_id /\ r.product_name = product_name}

\* UPDATE market_analyses SET ... WHERE id = ? AND user_id = ?
UpdateAnalysis(rows, id, user_id, data, timestamp) ==
    {IF r.id = id /\ r.user_id = user_id
     THEN [r EXCEPT !.avg_price = data.avgPrice, !.updated_at = timestamp]
     ELSE r : r \in rows}

\* INSERT INTO market_analyses ...
InsertAnalysis(rows, id, user_id, data, timestamp) ==
    rows \cup {[id |-> id, user_id |-> user_id, product_name |-> data.productName,
                avg_price |-> data.avgPrice, created_at |-> timestamp,
                updated_at |-> timestamp]}

\* INSERT INTO historical_prices ...
InsertPrice(rows, id, user_id, data, timestamp) ==
    rows \cup {[id |-> id, product_name |-> data.productName, date |-> timestamp,
                price |-> data.avgPrice, by |-> user_id]}

\* save_market_analysis up to fetchone(): the id and the timestamp are taken
\* from the clock and the committed table is searched for the pair.
StoreSelect(p) ==
    /\ saver[p].pc = "idle"
    /\ market.saves < MaxSaves
    /\ \E user_id \in StoreUsers, data \in MarketData :
       \E t1 \in StoreClockReadings :
       \E t2 \in t1..MaxStoreClock :
        LET rows == SelectExisting(market.analyses, user_id, data.productName) IN
        /\ market' = [market EXCEPT !.now = t2, !.saves = @ + 1]
        /\ \/ /\ rows = {}
              /\ saver' = [saver EXCEPT ![p] =
                    [IdleSaver EXCEPT !.pc = "selected", !.user_id = user_id,
                        !.data = data, !.analysis_id = t1, !.timestamp = t2]]
           \/ \E existing \in rows :
                 saver' = [saver EXCEPT ![p] =
                    [IdleSaver EXCEPT !.pc = "selected", !.user_id = user_id,
                        !.data = data, !.analysis_id = t1, !.timestamp = t2,
                        !.existing = existing, !.found = TRUE]]
    /\ UNCHANGED <<analyzerVars, api, reply>>

\* except Exception: conn.rollback(); raise Exception(...)
RolledBack(p, exc, at) ==
    [saver EXCEPT ![p].pc = "raised", ![p].exc = exc, ![p].at = at,
                  ![p].analyses = {}, ![p].prices = {}]

\* Mutant of StoreUpsert: the statement is committed as soon as it is run.
StoreUpsertAutocommit(p) ==
    /\ saver[p].pc = "selected"
    /\ market.lock = 0
    /\ LET c == saver[p] IN
       IF c.found
       THEN /\ saver' = [saver EXCEPT ![p].pc = "upserted",
                            ![p].analysis_id = c.existing.id,
                            ![p].analyses = UpdateAnalysis(market.analyses,
                                c.existing.id, c.user_id, c.data, c.timestamp),
                            ![p].prices = market.prices]
            /\ market' = [market EXCEPT !.lock = p,
                            !.analyses = UpdateAnalysis(market.analyses,
                                c.existing.id, c.user_id, c.data, c.timestamp)]
       ELSE IF \E r \in market.analyses : r.id = c.analysis_id
       THEN /\ saver' = RolledBack(p, "IntegrityError", "market_analyses")
            /\ market' = market
       ELSE /\ saver' = [saver EXCEPT ![p].pc = "upserted",
                            ![p].analyses = InsertAnalysis(market.analyses,
                                c.analysis_id, c.user_id, c.data, c.timestamp),
                            ![p].prices = market.prices]
            /\ market' = [market EXCEPT !.lock = p,
                            !.analyses = InsertAnalysis(market.analyses,
                                c.analysis_id, c.user_id, c.data, c.timestamp)]
    /\ UNCHANGED <<analyzerVars, api, reply>>

\* The UPDATE or the INSERT of market_analyses, run in a transaction that
\* takes the write lock; an INSERT of an id the table holds raises.
StoreUpsert(p) ==
    /\ saver[p].pc = "selected"
    /\ market.lock = 0
    /\ LET c == saver[p] IN
       IF c.found
       THEN /\ saver' = [saver EXCEPT ![p].pc = "upserted",
                            ![p].analysis_id = c.existing.id,
                            ![p].analyses = UpdateAnalysis(market.analyses,
                                c.existing.id, c.user_id, c.data, c.timestamp),
                            ![p].prices = market.prices]
            /\ market' = [market EXCEPT !.lock = p]
       ELSE IF \E r \in market.analyses : r.id = c.analysis_id
       THEN /\ saver' = RolledBack(p, "IntegrityError", "market_analyses")
            /\ market' = market
       ELSE /\ saver' = [saver EXCEPT ![p].pc = "upserted",
                            ![p].analyses = InsertAnalysis(market.analyses,
                                c.analysis_id, c.user_id, c.data, c.timestamp),
                            ![p].prices = market.prices]
            /\ market' = [market EXCEPT !.lock = p]
    /\ UNCHANGED <<analyzerVars, api, reply>>

\* The write lock stayed with another connection for the whole busy timeout.
StoreLocked(p) ==
    /\ saver[p].pc = "selected"
    /\ market.lock \notin {0, p}
    /\ saver' = RolledBack(p, "OperationalError", "market_analyses")
    /\ UNCHANGED <<analyzerVars, api, market, reply>>

\* The INSERT of historical_prices, its id taken from the clock.
StoreHistory(p) ==
    /\ saver[p].pc = "upserted"
    /\ \E t \in StoreClockReadings :
        LET c == saver[p] IN
        IF \E r \in c.prices : r.id = t
        THEN /\ saver' = RolledBack(p, "IntegrityError", "historical_prices")
             /\ market' = [market EXCEPT !.now = t, !.lock = 0]
        ELSE /\ saver' = [saver EXCEPT ![p].pc = "inserted",
                    ![p].prices = InsertPrice(c.prices, t, c.user_id, c.data,
                                              c.timestamp)]
             /\ market' = [market EXCEPT !.now = t]
    /\ UNCHANGED <<analyzerVars, api, reply>>

\* conn.commit(); return analysis_id
StoreCommit(p) ==
    /\ saver[p].pc = "inserted"
    /\ market' = [market EXCEPT !.analyses = saver[p].analyses,
                                !.prices = saver[p].prices, !.lock = 0]
    /\ saver' = [saver EXCEPT ![p].pc = "returned"]
    /\ UNCHANGED <<analyzerVars, api, reply>>

\* The caller has taken the id or the exception.
StoreReset(p) ==
    /\ saver[p].pc \in {"returned", "raised"}
    /\ saver' = [saver EXCEPT ![p] = IdleSaver]
    /\ UNCHANGED <<analyzerVars, api, market, reply>>

\* The handlers of GET and DELETE have one clause, except Exception.
OnlyExceptException(end) ==
    IF end.kind = "return" THEN [status |-> 200, detail |-> ""]
    ELSE IF "Exception" \in Bases(end.exc) THEN [status |-> 500, detail |-> end.msg]
    ELSE [status |-> end.status, detail |-> end.msg]

NotFound == Raises("HTTPException", 404, "Analyse non trouvee")

\* SELECT ... FROM market_analyses WHERE user_id = ? ORDER BY updated_at DESC
get_all_market_analyses(rows, user_id) ==
    {q \in Perms({r \in rows : r.user_id = user_id}) :
        \A i, j \in DOMAIN q : i < j => q[i].updated_at >= q[j].updated_at}

\* SELECT ... FROM historical_prices WHERE product_name = ? ORDER BY date ASC
PriceEvolution(rows, product_name) ==
    {[i \in DOMAIN q |-> [lastUpdated |-> q[i].date, avgPrice |-> q[i].price]] :
        q \in {o \in Perms({r \in rows : r.product_name = product_name}) :
                  \A i, j \in DOMAIN o : i < j => o[i].date <= o[j].date}}

\* SELECT ... FROM market_analyses WHERE id = ? AND user_id = ?
AnalysisRows(rows, user_id, analysis_id) ==
    {r \in rows : r.id = analysis_id /\ r.user_id = user_id}

\* GET /api/analyses of an authenticated user
GetAnalyses ==
    /\ \E user_id \in StoreUsers :
       \E analyses \in get_all_market_analyses(market.analyses, user_id) :
        reply' = [NoReply EXCEPT !.op = "get_analyses", !.user_id = user_id,
                                 !.found = TRUE, !.analyses = analyses,
                                 !.status = 200]
    /\ UNCHANGED <<analyzerVars, api, market, saver>>

\* GET /api/analyses/{analysis_id} of an authenticated user:
\* get_market_analysis_by_id, then the handler's answer.
GetAnalysis ==
    /\ \E user_id \in StoreUsers, analysis_id \in AnalysisIds :
        LET rows == AnalysisRows(market.analyses, user_id, analysis_id) IN
        IF rows = {}
        THEN reply' = [NoReply EXCEPT !.op = "get_analysis", !.user_id = user_id,
                          !.analysis_id = analysis_id,
                          !.status = OnlyExceptException(NotFound).status,
                          !.detail = OnlyExceptException(NotFound).detail]
        ELSE \E analysis \in rows :
             \E priceEvolution \in PriceEvolution(market.prices,
                                                  analysis.product_name) :
                reply' = [NoReply EXCEPT !.op = "get_analysis",
                            !.user_id = user_id, !.analysis_id = analysis_id,
                            !.found = TRUE, !.analysis = analysis,
                            !.priceEvolution = priceEvolution,
                            !.status = OnlyExceptException(Returns(0)).status]
    /\ UNCHANGED <<analyzerVars, api, market, saver>>

\* DELETE /api/analyses/{analysis_id} of an authenticated user:
\* delete_market_analysis, then the handler's answer.
DeleteAnalysis ==
    /\ market.lock = 0
    /\ \E user_id \in StoreUsers, analysis_id \in AnalysisIds :
        LET rows == AnalysisRows(market.analyses, user_id, analysis_id)
            end == IF rows = {} THEN NotFound ELSE Returns(0)
        IN  /\ market' = [market EXCEPT !.analyses = @ \ rows]
            /\ reply' = [NoReply EXCEPT !.op = "delete_analysis",
                            !.user_id = user_id, !.analysis_id = analysis_id,
                            !.found = (rows # {}),
                            !.status = OnlyExceptException(end).status,
                            !.detail = OnlyExceptException(end).detail]
    /\ UNCHANGED <<analyzerVars, api, saver>>

\* The DELETE found the write lock taken for the whole busy timeout:
\* delete_market_analysis raises and the handler answers 500.
DeleteLocked ==
    /\ market.lock # 0
    /\ \E user_id \in StoreUsers, analysis_id \in AnalysisIds :
        LET end == Raises("Exception", 0, "Erreur lors de la suppression") IN
        reply' = [NoReply EXCEPT !.op = "delete_analysis", !.user_id = user_id,
                    !.analysis_id = analysis_id, !.raised = TRUE,
                    !.status = OnlyExceptException(end).status,
                    !.detail = OnlyExceptException(end).detail]
    /\ UNCHANGED <<analyzerVars, api, market, saver>>

\* Concurrent connections saving analyses.
NextStore ==
    \/ \E p \in Procs : StoreSelect(p)
    \/ \E p \in Procs : StoreUpsert(p)
    \/ \E p \in Procs : StoreLocked(p)
    \/ \E p \in Procs : StoreHistory(p)
    \/ \E p \in Procs : StoreCommit(p)
    \/ \E p \in Procs : StoreReset(p)

SpecStore == Init /\ [][NextStore]_vars

\* One connection saving analyses, and the requests that read and delete them.
NextHandlers ==
    \/ StoreSelect(1)
    \/ StoreUpsert(1)
    \/ StoreHistory(1)
    \/ StoreCommit(1)
    \/ StoreReset(1)
    \/ GetAnalyses
    \/ GetAnalysis
    \/ DeleteAnalysis
    \/ DeleteLocked

SpecHandlers == Init /\ [][NextHandlers]_vars

-----------------------------------------------------------------------------
(* Properties of the analysis store and of its handlers *)

\* C23: a handler that has detected the not-found condition (POST
\* /api/analyze whose find_representative_item returned None; GET or DELETE
\* /api/analyses/{id} whose analysis does not exist for the user) answers 404.
C23_NotFoundIs404 ==
    /\ (api.endpoint = "POST /api/analyze" /\ api.find = ReturnsNone) =>
            api.response.status = 404
    /\ (reply.op \in {"get_analysis", "delete_analysis"}
            /\ ~reply.raised /\ ~reply.found) =>
            reply.status = 404

\* C27: market_analyses holds at most one row for a user and a product name.
C27_OneRowPerUserAndProduct ==
    \A r1, r2 \in market.analyses :
        (r1.user_id = r2.user_id /\ r1.product_name = r2.product_name) => r1 = r2

\* C28: the only step of a save_market_analysis call that changes
\* market_analyses or historical_prices is the one by which it returns, so a
\* call that raises has changed neither table; the step by which it returns
\* installs the update or the insert of market_analyses together with
\* exactly one new row of historical_prices.
C28_SaveAllOrNothing ==
    [][\A p \in Procs :
        saver'[p] # saver[p] =>
            IF saver'[p].pc = "returned"
            THEN LET c == saver[p] IN
                 /\ market'.analyses =
                        (IF c.found
                         THEN UpdateAnalysis(market.analyses, c.existing.id,
                                             c.user_id, c.data, c.timestamp)
                         ELSE InsertAnalysis(market.analyses, c.analysis_id,
                                             c.user_id, c.data, c.timestamp))
                 /\ Cardinality(market'.prices) = Cardinality(market.prices) + 1
                 /\ \E row \in market'.prices \ market.prices :
                        /\ market'.prices = market.prices \cup {row}
                        /\ row.product_name = c.data.productName
                        /\ row.date = c.timestamp
                        /\ row.price = c.data.avgPrice
            ELSE /\ market'.analyses = market.analyses
                 /\ market'.prices = market.prices]_vars

\* C28 witness: a save that had run its UPDATE raised on the primary key of
\* historical_prices, and the committed row still has its old updated_at.
C28_Witness ==
    \E p \in Procs :
        /\ saver[p].pc = "raised"
        /\ saver[p].exc = "IntegrityError"
        /\ saver[p].at = "historical_prices"
        /\ saver[p].found
        /\ saver[p].existing \in market.analyses
        /\ saver[p].timestamp > saver[p].existing.updated_at

\* C29: the list of get_all_market_analyses(u) holds the rows of u only; the
\* analysis of get_market_analysis_by_id(u, id) is a row of u and its
\* priceEvolution is made of the prices saved by u; delete_market_analysis
\* (u, id) removes the row of that id if it is a row of u and otherwise
\* reports no deletion and leaves both tables as they were.
C29_UserIsolation ==
    [][reply' # reply =>
        /\ reply'.op = "get_analyses" =>
              reply'.analyses \in
                get_all_market_analyses({r \in market.analyses :
                                            r.user_id = reply'.user_id},
                                        reply'.user_id)
        /\ (reply'.op = "get_analysis" /\ reply'.found) =>
              /\ reply'.analysis.user_id = reply'.user_id
              /\ reply'.priceEvolution \in
                    PriceEvolution({r \in market.prices : r.by = reply'.user_id},
                                   reply'.analysis.product_name)
        /\ (reply'.op = "delete_analysis" /\ ~reply'.raised) =>
              /\ market'.analyses =
                    {r \in market.analyses :
                        ~(r.id = reply'.analysis_id /\ r.user_id = reply'.user_id)}
              /\ market'.prices = market.prices
              /\ reply'.found = (market'.analyses # market.analyses)]_vars

====
